---- MODULE Spec2Model ----
(***************************************************************************)
(* Trinomial-tree option pricer (pricing_library): TrinomialTree.price,    *)
(* the recombining tree builder and the recursive valuation Node.price.    *)
(*                                                                         *)
(* Numbers.  The code computes in floats; the model computes in exact      *)
(* rationals <<numerator, denominator>> (denominator > 0, lowest terms).   *)
(* exp and sqrt have no rational value, so the market's interest rate and  *)
(* volatility are carried as the values the code takes of them over one    *)
(* step of the tree: interest_rate stands for exp(r * delta_t),            *)
(* volatility for the pair alpha = exp(sigma * sqrt(3 * delta_t)) and      *)
(* expvar = exp(sigma^2 * delta_t).  sigma = 0 gives alpha = expvar = 1.   *)
(* Dates are rational day counts from an epoch.                            *)
(***************************************************************************)
EXTENDS Integers, Sequences, FiniteSets, TLC

\* ------------------------------------------------------------- bounds
\* n_steps ranges over -1 .. MaxSteps: 3 steps is the smallest tree in which
\* an inner node is reached by two parents, and the largest whose squared
\* forward prices stay inside TLC's 32-bit integers with the inputs below.
\* MaxCalls price calls are made on one tree object.
MaxSteps == 3
MaxCalls == 2

\* ---------------------------------------------------------- rationals
RECURSIVE GCD(_, _)
GCD(a, b) == IF b = 0 THEN a ELSE GCD(b, a % b)

Abs(x) == IF x < 0 THEN -x ELSE x

\* n/d in lowest terms, g being the gcd of |n| and |d|
Reduce(n, d, g) == <<n \div g, d \div g>>
Rat(n, d) == Reduce(IF d < 0 THEN -n ELSE n, Abs(d), GCD(Abs(n), Abs(d)))

R(n) == <<n, 1>>
LCM(a, b) == (a \div GCD(a, b)) * b
\* sums over the least common denominator d, products after cancelling the
\* cross factors g1 and g2, so that intermediate integers stay small
MulBy(x, y, g1, g2) ==
    <<(x[1] \div g1) * (y[1] \div g2), (x[2] \div g2) * (y[2] \div g1)>>
RMul(x, y) == MulBy(x, y, GCD(Abs(x[1]), y[2]), GCD(Abs(y[1]), x[2]))
AddOver(x, y, d) == Rat(x[1] * (d \div x[2]) + y[1] * (d \div y[2]), d)
\* g, the gcd of the two numerators, is taken out of the sum first
AddScaled(x, y, g) ==
    RMul(<<g, 1>>,
         AddOver(<<x[1] \div g, x[2]>>, <<y[1] \div g, y[2]>>, LCM(x[2], y[2])))
RAdd(x, y) ==
    IF x[1] = 0 THEN y
    ELSE IF y[1] = 0 THEN x
    ELSE AddScaled(x, y, GCD(Abs(x[1]), Abs(y[1])))
RNeg(x) == <<-x[1], x[2]>>
RSub(x, y) == RAdd(x, RNeg(y))
\* x / y; the caller guards y # 0 (Python raises ZeroDivisionError there)
RDiv(x, y) == RMul(x, IF y[1] < 0 THEN <<-y[2], -y[1]>> ELSE <<y[2], y[1]>>)
RLt(x, y) == RSub(x, y)[1] < 0
RLe(x, y) == RSub(x, y)[1] <= 0
RMax(x, y) == IF RLt(x, y) THEN y ELSE x
RAbs(x) == <<Abs(x[1]), x[2]>>
RSq(x) == RMul(x, x)
Zero == R(0)
One == R(1)

\* Python's None, for node links (ids are 1..) and for option_price
None == 0
NoPrice == <<0, 0>>

\* ------------------------------------------------------------- inputs
n_days == 365
SpotPrice == 36

\* [alpha, expvar] of a volatility over one step (see the header)
Volatilities ==
    { [alpha |-> One, expvar |-> One],
      [alpha |-> <<3, 2>>, expvar |-> <<19, 18>>] }

\* exp(r * delta_t)
InterestRates == { One, <<4, 3>> }

\* <<dividend_price, dividend_ex_date>>
Dividends == { <<Zero, 100>>, <<R(6), 3>>, <<R(6), 6>>, <<R(24), 3>>, <<R(36), 3>> }

Markets ==
    { [interest_rate |-> r, volatility |-> v, spot_price |-> R(SpotPrice),
       dividend_price |-> d[1], dividend_ex_date |-> R(d[2])] :
        r \in InterestRates, v \in Volatilities, d \in Dividends }

PricingDate == 0
Maturity == 12
StrikePrice == 36

StepCounts == (-1) .. MaxSteps

Option(option_type, exercise_type, maturity_date) ==
    [option_type |-> option_type, exercise_type |-> exercise_type,
     strike_price |-> R(StrikePrice), maturity_date |-> maturity_date]

\* the contracts a caller passes: the four supported kinds, one unsupported
\* option_type, one unsupported exercise_type, one already at maturity
Options ==
    { Option(t, e, Maturity) : t \in {"call", "put"}, e \in {"eu", "us"} }
    \cup { Option("digital", "eu", Maturity),
           Option("call", "bermudan", Maturity),
           Option("put", "eu", PricingDate) }

\* -------------------------------------------------------------- state
VARIABLES
    market,        \* TrinomialTree.market
    tree,          \* TrinomialTree attributes: n_steps, pricing_date, delta_t, alpha, discount_factor, root
    nodes,         \* the Node objects of the tree under self.root, by id
    nb_nodes,      \* Node.nb_nodes (class attribute)
    opt,           \* the contract of the price call in progress
    pc,            \* position in TrinomialTree.price
    i,             \* __build_tree: generations constructed so far
    current_date,  \* __build_tree: current_date
    current_mid,   \* __build_tree: current_mid (prev_trunc_node)
    walker,        \* __construct_next_generation: current_upper/lower_neighbours
    visit,         \* Node.price: the node whose price() is being entered
    stack,         \* Node.price: suspended callers, innermost last
    results        \* outcome of every finished price call, in order

vars == <<market, tree, nodes, nb_nodes, opt, pc, i, current_date, current_mid,
          walker, visit, stack, results>>

NoOption == Option("none", "none", PricingDate)

Init ==
    /\ market \in Markets
    /\ \E n \in StepCounts :
         tree = [n_steps |-> n, pricing_date |-> PricingDate, delta_t |-> NoPrice,
                 alpha |-> NoPrice, discount_factor |-> NoPrice, root |-> None]
    /\ nodes = <<>>
    /\ nb_nodes = 0
    /\ opt = NoOption
    /\ pc = "idle"
    /\ i = 0
    /\ current_date = R(PricingDate)
    /\ current_mid = None
    /\ walker = None
    /\ visit = None
    /\ stack = <<>>
    /\ results = <<>>


\* -------------------------------------------------------------- utils
calculate_discount_factor(interest_rate, delta_t) == RDiv(One, interest_rate)

calculate_forward_price(spot_price, interest_rates, delta_t) ==
    RMul(spot_price, interest_rates)

calculate_alpha(volatility, delta_t) == volatility.alpha

calculate_variance(spot_price, interest_rate, volatility, delta_t) ==
    RMul(RMul(RSq(spot_price), RSq(interest_rate)), RSub(volatility.expvar, One))

\* forward_price ** (-2), forward_price ** (-1) and the final division raise
\* ZeroDivisionError when forward_price = 0 or alpha = 1
down_probability_raises(forward_price, alpha) ==
    forward_price = Zero \/ alpha = One

calculate_down_probability(forward_price, esperance, variance, alpha) ==
    RDiv(RSub(RSub(RMul(RDiv(One, RSq(forward_price)),
                        RAdd(variance, RSq(esperance))),
                   One),
              RMul(RAdd(alpha, One),
                   RSub(RMul(RDiv(One, forward_price), esperance), One))),
         RMul(RSub(One, alpha), RSub(RDiv(One, RSq(alpha)), One)))

calculate_up_probability(down_probability, alpha) == RDiv(down_probability, alpha)

\* imported by node.py, defined in no file of src/: the up probability that
\* makes the three-branch mean equal to the pre-dividend expectation
calculate_up_probability_w_dividend(down_probability, alpha, esperance, forward_price) ==
    RDiv(RSub(RSub(RMul(RDiv(One, forward_price), esperance), One),
              RMul(RSub(RDiv(One, alpha), One), down_probability)),
         RSub(alpha, One))

calculate_mid_probability(up_probability, down_probability) ==
    RSub(One, RAdd(down_probability, up_probability))

\* --------------------------------------------------------------- Option
payoff(o, spot) ==
    IF o.option_type = "call"
    THEN RMax(RSub(spot, o.strike_price), Zero)
    ELSE RMax(RSub(o.strike_price, spot), Zero)

\* ----------------------------------------------------------------- Node
\* timedelta(days = delta_t * n_days)
timedelta(t) == RMul(t.delta_t, R(n_days))

\* Node.__init__'s test for the ex-dividend date
dividend_in_interval(t, m, time_step) ==
    /\ RLe(m.dividend_ex_date, RAdd(time_step, timedelta(t)))
    /\ RLe(time_step, m.dividend_ex_date)

\* Node.__calculate_probabilities lines 77-88, p_down being known
probabilities_given_down(alpha, esperance, forward_price, with_dividend, variance, p_down) ==
    [variance |-> variance,
     p_down |-> p_down,
     p_up |-> IF with_dividend
              THEN calculate_up_probability_w_dividend(p_down, alpha, esperance, forward_price)
              ELSE calculate_up_probability(p_down, alpha),
     p_mid |-> calculate_mid_probability(
                   IF with_dividend
                   THEN calculate_up_probability_w_dividend(p_down, alpha, esperance,
                                                            forward_price)
                   ELSE calculate_up_probability(p_down, alpha),
                   p_down),
     with_dividend |-> with_dividend]

\* Node.__calculate_probabilities lines 74-88, the variance being known
probabilities_given_variance(alpha, esperance, forward_price, with_dividend, variance) ==
    probabilities_given_down(alpha, esperance, forward_price, with_dividend, variance,
        calculate_down_probability(esperance, forward_price, variance, alpha))

\* Node.__calculate_probabilities; force_check is False at every call site,
\* so __check_conditions never runs
calculate_probabilities(t, m, spot_price, esperance, forward_price, with_dividend) ==
    probabilities_given_variance(t.alpha, esperance, forward_price, with_dividend,
        calculate_variance(spot_price, m.interest_rate, m.volatility, t.delta_t))

\* Node.__init__ raises (ZeroDivisionError out of calculate_down_probability,
\* whose first argument is the node's esperance)
Node_raises(t, m, spot_price) ==
    down_probability_raises(
        calculate_forward_price(spot_price, m.interest_rate, t.delta_t), t.alpha)

\* the object Node.__init__ leaves, its computed attributes being known
Node_object(alpha, spot_price, time_step, esperance, forward_price, pr) ==
    [spot_price |-> spot_price, time_step |-> time_step,
     forward_price |-> forward_price, esperance |-> esperance,
     variance |-> pr.variance, p_down |-> pr.p_down, p_up |-> pr.p_up,
     p_mid |-> pr.p_mid, with_dividend |-> pr.with_dividend,
     up_price |-> RMul(alpha, forward_price),
     down_price |-> RDiv(forward_price, alpha),
     node_up |-> None, node_down |-> None,
     next_lower_node |-> None, next_upper_node |-> None, next_mid_node |-> None,
     option_price |-> NoPrice]

\* Node.__init__ lines 46-57: both branches call __calculate_probabilities()
\* with its defaults, with_dividend = False
Node_with_forward(t, m, spot_price, time_step, esperance, forward_price) ==
    Node_object(t.alpha, spot_price, time_step, esperance, forward_price,
        calculate_probabilities(t, m, spot_price, esperance, forward_price, FALSE))

\* Node.__init__ lines 36-50, fwd being the forward price of line 36
Node_from_forward(t, m, spot_price, time_step, fwd) ==
    Node_with_forward(t, m, spot_price, time_step, fwd,
        IF dividend_in_interval(t, m, time_step) THEN RSub(fwd, m.dividend_price) ELSE fwd)

\* Node.__init__: the object it leaves when it does not raise
Node(t, m, spot_price, time_step) ==
    Node_from_forward(t, m, spot_price, time_step,
        calculate_forward_price(spot_price, m.interest_rate, t.delta_t))

\* ------------------------------------------------- TrinomialTree.price
\* an exception leaves price(): nothing is returned
Raise(o, error) ==
    /\ pc' = "failed"
    /\ results' = Append(results, [opt |-> o, status |-> error, price |-> NoPrice])

\* lines 52-59: delta_t, alpha and the discount factor
derive_parameters(delta_t) ==
    [tree EXCEPT !.delta_t = delta_t,
                 !.alpha = calculate_alpha(market.volatility, delta_t),
                 !.discount_factor = calculate_discount_factor(market.interest_rate, delta_t)]

\* lines 48-60: the assertion and the derived parameters
TrinomialTree_price ==
    /\ pc \in {"idle", "done", "failed"}
    /\ Len(results) < MaxCalls
    /\ \E o \in Options :
         /\ opt' = o
         /\ IF ~(tree.pricing_date < o.maturity_date)
            THEN /\ Raise(o, "AssertionError")
                 /\ UNCHANGED tree
            ELSE IF tree.n_steps = 0
            THEN /\ Raise(o, "ZeroDivisionError")
                 /\ UNCHANGED tree
            ELSE /\ tree' = derive_parameters(
                               RAbs(RDiv(Rat(o.maturity_date - tree.pricing_date,
                                             tree.n_steps),
                                         R(n_days))))
                 /\ pc' = "build_tree"
                 /\ UNCHANGED results
    /\ UNCHANGED <<market, nodes, nb_nodes, i, current_date, current_mid, walker,
                   visit, stack>>

\* where __build_tree's loop goes once generation i is complete
AfterGeneration(done, root) ==
    IF done < tree.n_steps
    THEN /\ pc' = "trunk"
         /\ visit' = None
    ELSE /\ pc' = "price"
         /\ visit' = root

\* as build_tree, but the lattice left under self.root by an earlier call
\* that returned is kept and priced again instead of being built anew
build_tree_reusing_lattice ==
    /\ pc = "build_tree"
    /\ IF tree.root # None /\ results # <<>> /\ results[Len(results)].status = "returned"
       THEN /\ pc' = "price"
            /\ visit' = tree.root
            /\ UNCHANGED <<tree, nodes, nb_nodes, i, current_date, current_mid, results>>
       ELSE /\ nb_nodes' = nb_nodes + 1
            /\ IF Node_raises(tree, market, market.spot_price)
               THEN /\ Raise(opt, "ZeroDivisionError")
                    /\ UNCHANGED <<tree, nodes, i, current_date, current_mid, visit>>
               ELSE /\ nodes' = <<Node(tree, market, market.spot_price,
                                       R(tree.pricing_date))>>
                    /\ tree' = [tree EXCEPT !.root = 1]
                    /\ current_mid' = 1
                    /\ current_date' = R(tree.pricing_date)
                    /\ i' = 0
                    /\ AfterGeneration(0, 1)
                    /\ UNCHANGED results
    /\ UNCHANGED <<market, opt, walker, stack>>

\* __build_tree lines 69-71: the root
build_tree ==
    /\ pc = "build_tree"
    /\ nb_nodes' = nb_nodes + 1
    /\ IF Node_raises(tree, market, market.spot_price)
       THEN /\ Raise(opt, "ZeroDivisionError")
            /\ UNCHANGED <<tree, nodes, i, current_date, current_mid, visit>>
       ELSE /\ nodes' = <<Node(tree, market, market.spot_price, R(tree.pricing_date))>>
            /\ tree' = [tree EXCEPT !.root = 1]
            /\ current_mid' = 1
            /\ current_date' = R(tree.pricing_date)
            /\ i' = 0
            /\ AfterGeneration(0, 1)
            /\ UNCHANGED results
    /\ UNCHANGED <<market, opt, walker, stack>>


\* ----------------------------------------------------- the tree builder
\* __compute_next_nodes: the three children of the trunk node c, new ids
\* n, n_up, n_down in construction order
compute_next_nodes(ns, c, date_time) ==
    LET n == Len(ns) + 1
        n_up == Len(ns) + 2
        n_down == Len(ns) + 3
        linked == [ns EXCEPT ![c].next_mid_node = n,
                             ![c].next_upper_node = n_up,
                             ![c].next_lower_node = n_down]
    IN  linked \o
        << [Node(tree, market, ns[c].forward_price, date_time)
                EXCEPT !.node_up = n_up, !.node_down = n_down],
           [Node(tree, market, ns[c].up_price, date_time) EXCEPT !.node_down = n],
           [Node(tree, market, ns[c].down_price, date_time) EXCEPT !.node_up = n] >>

\* as __compute_next_nodes_upward, but the mid child is constructed anew
\* instead of being taken from the lower sibling
compute_next_nodes_upward_no_reuse(ns, c, date_time) ==
    LET lower == ns[ns[c].node_down].next_mid_node
        mid == Len(ns) + 1
        upper == Len(ns) + 2
        linked == [ns EXCEPT ![c].next_lower_node = lower,
                             ![c].next_mid_node = mid,
                             ![c].next_upper_node = upper]
    IN  linked \o
        << [Node(tree, market, ns[c].forward_price, date_time) EXCEPT !.node_up = upper],
           [Node(tree, market, ns[c].up_price, date_time) EXCEPT !.node_down = mid] >>

\* __compute_next_nodes_upward: c reuses two children of its lower sibling
\* and gets one new upper child
compute_next_nodes_upward(ns, c, date_time) ==
    LET lower == ns[ns[c].node_down].next_mid_node
        mid == ns[ns[c].node_down].next_upper_node
        upper == Len(ns) + 1
        linked == [ns EXCEPT ![c].next_lower_node = lower,
                             ![c].next_mid_node = mid,
                             ![c].next_upper_node = upper,
                             ![mid].node_up = upper]
    IN  Append(linked,
               [Node(tree, market, ns[c].up_price, date_time) EXCEPT !.node_down = mid])

\* as __compute_next_nodes_downward, but the upper child is constructed anew
\* instead of being taken from the upper sibling
compute_next_nodes_downward_no_reuse(ns, c, date_time) ==
    LET mid == ns[ns[c].node_up].next_lower_node
        upper == Len(ns) + 1
        lower == Len(ns) + 2
        linked == [ns EXCEPT ![c].next_mid_node = mid,
                             ![c].next_upper_node = upper,
                             ![c].next_lower_node = lower,
                             ![mid].node_down = lower]
    IN  linked \o
        << Node(tree, market, ns[c].up_price, date_time),
           [Node(tree, market, ns[c].down_price, date_time) EXCEPT !.node_up = mid] >>

\* __compute_next_nodes_downward: the mirror image
compute_next_nodes_downward(ns, c, date_time) ==
    LET mid == ns[ns[c].node_up].next_lower_node
        upper == ns[ns[c].node_up].next_mid_node
        lower == Len(ns) + 1
        linked == [ns EXCEPT ![c].next_mid_node = mid,
                             ![c].next_upper_node = upper,
                             ![c].next_lower_node = lower,
                             ![mid].node_down = lower]
    IN  Append(linked,
               [Node(tree, market, ns[c].down_price, date_time) EXCEPT !.node_up = mid])

\* __construct_next_generation returns prev_trunc_node.next_mid_node and
\* __build_tree's loop goes on
FinishGeneration(ns) ==
    /\ current_mid' = ns[current_mid].next_mid_node
    /\ i' = i + 1
    /\ walker' = None
    /\ AfterGeneration(i + 1, tree.root)

\* the second while loop of __construct_next_generation starts
StartDownward(ns) ==
    IF ns[current_mid].node_down # None
    THEN /\ walker' = ns[current_mid].node_down
         /\ pc' = "downward"
         /\ UNCHANGED <<current_mid, i, visit>>
    ELSE FinishGeneration(ns)

\* a Node constructor raised inside the builder
BuilderRaises ==
    /\ Raise(opt, "ZeroDivisionError")
    /\ UNCHANGED <<nodes, i, current_date, current_mid, walker, visit>>

\* __build_tree's loop body up to the first while loop: the date advances and
\* the trunk node gets its three children.  The three spots are forward_price,
\* alpha * forward_price and forward_price / alpha, so when a constructor
\* raises (spot 0) it is the first one.
construct_next_generation ==
    /\ pc = "trunk"
    /\ LET date_time == RAdd(current_date, timedelta(tree))
       IN  IF Node_raises(tree, market, nodes[current_mid].forward_price)
           THEN /\ nb_nodes' = nb_nodes + 1
                /\ BuilderRaises
           ELSE LET ns == compute_next_nodes(nodes, current_mid, date_time)
                IN  /\ nodes' = ns
                    /\ nb_nodes' = nb_nodes + 3
                    /\ current_date' = date_time
                    /\ IF ns[current_mid].node_up # None
                       THEN /\ walker' = ns[current_mid].node_up
                            /\ pc' = "upward"
                            /\ UNCHANGED <<current_mid, i, visit>>
                       ELSE StartDownward(ns)
                    /\ UNCHANGED results
    /\ UNCHANGED <<market, tree, opt, stack>>

\* one iteration of the loop over the upper neighbours
walk_upward ==
    /\ pc = "upward"
    /\ nb_nodes' = nb_nodes + 1
    /\ IF Node_raises(tree, market, nodes[walker].up_price)
       THEN BuilderRaises
       ELSE LET ns == compute_next_nodes_upward(nodes, walker, current_date)
            IN  /\ nodes' = ns
                /\ IF ns[walker].node_up # None
                   THEN /\ walker' = ns[walker].node_up
                        /\ UNCHANGED <<pc, current_mid, i, visit>>
                   ELSE StartDownward(ns)
                /\ UNCHANGED <<current_date, results>>
    /\ UNCHANGED <<market, tree, opt, stack>>

\* one iteration of the loop over the lower neighbours
walk_downward ==
    /\ pc = "downward"
    /\ nb_nodes' = nb_nodes + 1
    /\ IF Node_raises(tree, market, nodes[walker].down_price)
       THEN BuilderRaises
       ELSE LET ns == compute_next_nodes_downward(nodes, walker, current_date)
            IN  /\ nodes' = ns
                /\ IF ns[walker].node_down # None
                   THEN /\ walker' = ns[walker].node_down
                        /\ UNCHANGED <<pc, current_mid, i, visit>>
                   ELSE FinishGeneration(ns)
                /\ UNCHANGED <<current_date, results>>
    /\ UNCHANGED <<market, tree, opt, stack>>

\* ------------------------------------------------------------ Node.price
\* as continuation_value, with the up and down probabilities exchanged
continuation_value_swapped(t, nd, values) ==
    RMul(t.discount_factor,
         RAdd(RAdd(RMul(nd.p_down, values[1]), RMul(nd.p_mid, values[2])),
              RMul(nd.p_up, values[3])))

\* lines 106-110: the discounted three-branch expectation; values holds the
\* prices returned by the upper, mid and lower child, in call order
continuation_value(t, nd, values) ==
    RMul(t.discount_factor,
         RAdd(RAdd(RMul(nd.p_up, values[1]), RMul(nd.p_mid, values[2])),
              RMul(nd.p_down, values[3])))

\* lines 112-113
early_exercise(o, nd, value) ==
    IF o.exercise_type = "us" THEN RMax(value, payoff(o, nd.spot_price)) ELSE value

\* the child a suspended caller calls after `got` children have returned
next_child(nd, got) ==
    IF got = 0 THEN nd.next_upper_node
    ELSE IF got = 1 THEN nd.next_mid_node
    ELSE IF got = 2 THEN nd.next_lower_node
    ELSE None

\* Node.price returns value to the caller suspended on top of stk, or to
\* TrinomialTree.price, which returns it
Return(stk, value, ns) ==
    IF stk = <<>>
    THEN /\ results' = Append(results, [opt |-> opt, status |-> "returned", price |-> value])
         /\ pc' = "done"
         /\ visit' = None
         /\ stack' = stk
    ELSE LET top == stk[Len(stk)]
             values == Append(top.values, value)
         IN  /\ stack' = [stk EXCEPT ![Len(stk)].values = values]
             /\ visit' = next_child(ns[top.node], Len(values))
             /\ UNCHANGED <<pc, results>>

\* price() on a leaf
Node_price_leaf ==
    /\ pc = "price"
    /\ visit # None
    /\ nodes[visit].next_mid_node = None
    /\ LET value == early_exercise(opt, nodes[visit], payoff(opt, nodes[visit].spot_price))
       IN  /\ nodes' = [nodes EXCEPT ![visit].option_price = value]
           /\ Return(stack, value, nodes')
    /\ UNCHANGED <<market, tree, nb_nodes, opt, i, current_date, current_mid, walker>>

\* price() on an inner node that has no option_price yet: the first child is called
Node_price_descend ==
    /\ pc = "price"
    /\ visit # None
    /\ nodes[visit].next_mid_node # None
    /\ nodes[visit].option_price = NoPrice
    /\ stack' = Append(stack, [node |-> visit, values |-> <<>>])
    /\ visit' = next_child(nodes[visit], 0)
    /\ UNCHANGED <<market, tree, nodes, nb_nodes, opt, pc, i, current_date, current_mid,
                   walker, results>>

\* price() on an inner node that already has an option_price
Node_price_memo ==
    /\ pc = "price"
    /\ visit # None
    /\ nodes[visit].next_mid_node # None
    /\ nodes[visit].option_price # NoPrice
    /\ LET value == early_exercise(opt, nodes[visit], nodes[visit].option_price)
       IN  /\ nodes' = [nodes EXCEPT ![visit].option_price = value]
           /\ Return(stack, value, nodes')
    /\ UNCHANGED <<market, tree, nb_nodes, opt, i, current_date, current_mid, walker>>

\* the three children have returned: the suspended price() finishes
Node_price_combine ==
    /\ pc = "price"
    /\ visit = None
    /\ stack # <<>>
    /\ LET top == stack[Len(stack)]
           nd == nodes[top.node]
           value == early_exercise(opt, nd, continuation_value(tree, nd, top.values))
       IN  /\ Len(top.values) = 3
           /\ nodes' = [nodes EXCEPT ![top.node].option_price = value]
           /\ Return(SubSeq(stack, 1, Len(stack) - 1), value, nodes')
    /\ UNCHANGED <<market, tree, nb_nodes, opt, i, current_date, current_mid, walker>>

Next ==
    \/ TrinomialTree_price
    \/ build_tree
    \/ construct_next_generation
    \/ walk_upward
    \/ walk_downward
    \/ Node_price_leaf
    \/ Node_price_descend
    \/ Node_price_memo
    \/ Node_price_combine

Spec == Init /\ [][Next]_vars


\* ============================================================ properties
Ids == 1 .. Len(nodes)

\* __build_tree has returned: the tree under self.root is complete
Built == pc \in {"price", "done"}

LastResult == results[Len(results)]

\* the last price call returned a price and no other call has started
Returned == pc = "done" /\ LastResult.status = "returned"

Children(x) ==
    {nodes[x].next_upper_node, nodes[x].next_mid_node, nodes[x].next_lower_node} \ {None}

\* the nodes reached from the root by following child links k times
RECURSIVE Level(_)
Level(k) ==
    IF k = 0 THEN {tree.root} ELSE UNION {Children(x) : x \in Level(k - 1)}

\* the k-th node of the trunk (the chain of mid children)
RECURSIVE Trunk(_)
Trunk(k) == IF k = 0 THEN tree.root ELSE nodes[Trunk(k - 1)].next_mid_node

\* x and the nodes above (below) it, following node_up (node_down) at most fuel times
RECURSIVE UpChain(_, _)
UpChain(x, fuel) ==
    IF x = None \/ fuel = 0 THEN {} ELSE {x} \cup UpChain(nodes[x].node_up, fuel - 1)

RECURSIVE DownChain(_, _)
DownChain(x, fuel) ==
    IF x = None \/ fuel = 0 THEN {} ELSE {x} \cup DownChain(nodes[x].node_down, fuel - 1)

Generation(k) ==
    UpChain(Trunk(k), Len(nodes) + 1) \cup DownChain(Trunk(k), Len(nodes) + 1)

\* the date __build_tree gives generation k
GenerationDate(k) == RAdd(R(tree.pricing_date), RMul(R(k), timedelta(tree)))

\* C1: after a build with n_steps >= 1, generation k (the siblings of the k-th
\* trunk node, and equally the nodes k child links away from the root) has
\* exactly 2k+1 distinct nodes, for every k in 0..n_steps
C1_GenerationSize ==
    (Built /\ tree.n_steps >= 1) =>
        \A k \in 0 .. tree.n_steps :
            /\ Cardinality(Generation(k)) = 2 * k + 1
            /\ Level(k) = Generation(k)

C1_Witness ==
    /\ Built
    /\ tree.n_steps >= 2
    /\ Cardinality(Generation(2)) = 5

\* the price calls that have built a complete tree, the current one included
BuildsSoFar ==
    Cardinality({j \in 1 .. Len(results) : results[j].status = "returned"})
        + (IF pc = "price" THEN 1 ELSE 0)

\* C3: a complete build with n_steps >= 1 has invoked the Node constructor
\* 2k+1 times for generation k and (n_steps+1)^2 times in all (Node.nb_nodes
\* grows by that much per build), and every constructed node is reachable
\* from the root through child links
C3_ConstructorCalls ==
    (Built /\ tree.n_steps >= 1) =>
        /\ \A k \in 0 .. tree.n_steps :
              Cardinality({x \in Ids : nodes[x].time_step = GenerationDate(k)}) = 2 * k + 1
        /\ Len(nodes) = (tree.n_steps + 1) * (tree.n_steps + 1)
        /\ nb_nodes = BuildsSoFar * (tree.n_steps + 1) * (tree.n_steps + 1)
        /\ UNION {Level(k) : k \in 0 .. tree.n_steps} = Ids

C3_Witness ==
    /\ pc = "price"
    /\ tree.n_steps >= 2
    /\ Len(results) = 1
    /\ Len(nodes) = (tree.n_steps + 1) * (tree.n_steps + 1)

IsLeaf(x) == nodes[x].next_mid_node = None

\* C2: once a European contract is priced, every leaf holds the payoff at its
\* spot, every inner node holds the discounted three-branch expectation of
\* its children's values, and for n_steps = 1 the price returned is that
\* expectation of the payoffs at the root's up, forward and down prices
C2_EuropeanBackwardInduction ==
    (Returned /\ opt.exercise_type = "eu") =>
        /\ \A x \in Ids :
              nodes[x].option_price =
                  IF IsLeaf(x)
                  THEN payoff(opt, nodes[x].spot_price)
                  ELSE RMul(tree.discount_factor,
                            RAdd(RAdd(RMul(nodes[x].p_up,
                                           nodes[nodes[x].next_upper_node].option_price),
                                      RMul(nodes[x].p_mid,
                                           nodes[nodes[x].next_mid_node].option_price)),
                                 RMul(nodes[x].p_down,
                                      nodes[nodes[x].next_lower_node].option_price)))
        /\ LastResult.price = nodes[tree.root].option_price
        /\ tree.n_steps = 1 =>
              LastResult.price =
                  LET root == nodes[tree.root]
                  IN  RMul(tree.discount_factor,
                           RAdd(RAdd(RMul(root.p_up, payoff(opt, root.up_price)),
                                     RMul(root.p_mid, payoff(opt, root.forward_price))),
                                RMul(root.p_down, payoff(opt, root.down_price))))

C2_Witness ==
    /\ Returned
    /\ opt.exercise_type = "eu"
    /\ tree.n_steps >= 2
    /\ LastResult.price # Zero


\* ---------------------------------------------------- moment conditions
InUnit(p) == RLe(Zero, p) /\ RLe(p, One)

ProbabilitiesInRange(nd) == InUnit(nd.p_up) /\ InUnit(nd.p_mid) /\ InUnit(nd.p_down)

ProbabilitiesSumToOne(nd) == RAdd(RAdd(nd.p_down, nd.p_up), nd.p_mid) = One

FirstMoment(nd) ==
    RAdd(RAdd(RMul(nd.p_down, nd.down_price), RMul(nd.p_mid, nd.forward_price)),
         RMul(nd.p_up, nd.up_price))

SecondMoment(nd) ==
    RAdd(RAdd(RMul(nd.p_down, RSq(nd.down_price)), RMul(nd.p_mid, RSq(nd.forward_price))),
         RMul(nd.p_up, RSq(nd.up_price)))

\* what Node.__check_conditions asserts
MomentConsistent(nd) ==
    /\ ProbabilitiesSumToOne(nd)
    /\ FirstMoment(nd) = nd.forward_price
    /\ SecondMoment(nd) = RAdd(nd.variance, RSq(nd.esperance))

\* C4: with the same tree, option kind, strike and maturity, the price returned
\* for the American contract is at least the price returned for the European one
C4_AmericanAtLeastEuropean ==
    \A a, e \in 1 .. Len(results) :
        ( /\ results[a].status = "returned"
          /\ results[e].status = "returned"
          /\ results[a].opt.exercise_type = "us"
          /\ results[e].opt = [results[a].opt EXCEPT !.exercise_type = "eu"] )
        => RLe(results[e].price, results[a].price)

\* C5: with a valid step count, a node whose interval contains the ex-dividend date gets its up
\* probability from the dividend-aware formula; every other node has
\* p_up = p_down / alpha and esperance = forward_price
C5_DividendAwareUpProbability ==
    tree.n_steps >= 1 => \A x \in Ids :
        IF dividend_in_interval(tree, market, nodes[x].time_step)
        THEN /\ nodes[x].with_dividend
             /\ nodes[x].p_up =
                    calculate_up_probability_w_dividend(
                        nodes[x].p_down, tree.alpha, nodes[x].esperance,
                        nodes[x].forward_price)
        ELSE /\ nodes[x].p_up = RDiv(nodes[x].p_down, tree.alpha)
             /\ nodes[x].esperance = nodes[x].forward_price

\* C6: with pricing_date >= maturity_date or n_steps < 1, price fails at once:
\* no node is constructed and no price is returned
C6_PreconditionsEnforced ==
    /\ tree.n_steps < 1 =>
          /\ nodes = <<>>
          /\ \A j \in 1 .. Len(results) : results[j].status # "returned"
    /\ \A j \in 1 .. Len(results) :
          ~(tree.pricing_date < results[j].opt.maturity_date)
              => results[j].status = "AssertionError"

\* C7: with alpha = 1 the division in the down probability is guarded: no
\* price call ends in a division by zero, and a call with valid dates and
\* step count returns a price
C7_DegenerateAlphaGuarded ==
    \A j \in 1 .. Len(results) :
        (calculate_alpha(market.volatility, tree.delta_t) = One /\ tree.n_steps >= 1)
        => /\ results[j].status # "ZeroDivisionError"
           /\ tree.pricing_date < results[j].opt.maturity_date
                 => results[j].status = "returned"

\* C8: a contract whose option_type is neither call nor put, or whose
\* exercise_type is neither eu nor us, gets no price
C8_UnsupportedContractRejected ==
    \A j \in 1 .. Len(results) :
        (\/ results[j].opt.option_type \notin {"call", "put"}
         \/ results[j].opt.exercise_type \notin {"eu", "us"})
        => results[j].status # "returned"

\* C9: with a valid step count, no price is returned from a tree holding a node whose probabilities
\* leave [0, 1] or that fails the sum, mean or second-moment check
C9_ViolationsReported ==
    (Returned /\ tree.n_steps >= 1) =>
        \A x \in Ids : ProbabilitiesInRange(nodes[x]) /\ MomentConsistent(nodes[x])

\* C10: with a valid step count, every constructed node satisfies the moment conditions: probabilities
\* sum to 1, the three-branch mean is forward_price and the three-branch
\* second moment is variance + esperance^2
C10_MomentConsistency ==
    tree.n_steps >= 1 => \A x \in Ids : MomentConsistent(nodes[x])

\* ------------------------------------------------------- write-once value
\* a visit of Node.price that assigns option_price on a node that already
\* holds one: line 103 on a leaf (every visit assigns the payoff), line 113
\* on an inner node of an American contract (every visit assigns the max)
ReassignsOptionPrice ==
    \/ Node_price_leaf /\ nodes[visit].option_price # NoPrice
    \/ Node_price_memo /\ opt.exercise_type = "us"

\* C11: within one price call, once a node's option_price is assigned no later
\* visit of Node.price to that node assigns it again
C11_WriteOnce == [][~ReassignsOptionPrice]_vars

\* -------------------------------------------------- state across calls
\* C12: a price call on valid inputs leaves every variable that existed
\* before it as it was: once the call has returned, the class attribute
\* Node.nb_nodes, the market and the tree's constructor arguments have the
\* values they had before the first call
C12_NoStateAcrossCalls ==
    (Returned /\ tree.n_steps >= 1) =>
        /\ nb_nodes = 0
        /\ market \in Markets
        /\ tree.pricing_date = PricingDate

\* ------------------------------------------------------ recombination
\* the nodes of generation k strictly above (below) the trunk
AboveTrunk(k) == UpChain(Trunk(k), Len(nodes) + 1) \ {Trunk(k)}
BelowTrunk(k) == DownChain(Trunk(k), Len(nodes) + 1) \ {Trunk(k)}

\* C13: after the build, a non-leaf node U above the trunk takes its lower and
\* mid child from its lower sibling (U.node_down.next_mid_node and
\* U.node_down.next_upper_node) and only its upper child is new (constructed
\* after the two others, and no child of the sibling); symmetrically below the
\* trunk, where only the lower child is new
C13_ChildrenReused ==
    (Built /\ tree.n_steps >= 1) =>
        \A k \in 0 .. tree.n_steps - 1 :
            /\ \A U \in AboveTrunk(k) :
                  /\ nodes[U].node_down # None
                  /\ nodes[U].next_lower_node = nodes[nodes[U].node_down].next_mid_node
                  /\ nodes[U].next_mid_node = nodes[nodes[U].node_down].next_upper_node
                  /\ nodes[U].next_upper_node \notin Children(nodes[U].node_down)
                  /\ nodes[U].next_upper_node > nodes[U].next_mid_node
                  /\ nodes[U].next_upper_node > nodes[U].next_lower_node
            /\ \A D \in BelowTrunk(k) :
                  /\ nodes[D].node_up # None
                  /\ nodes[D].next_mid_node = nodes[nodes[D].node_up].next_lower_node
                  /\ nodes[D].next_upper_node = nodes[nodes[D].node_up].next_mid_node
                  /\ nodes[D].next_lower_node \notin Children(nodes[D].node_up)
                  /\ nodes[D].next_lower_node > nodes[D].next_mid_node
                  /\ nodes[D].next_lower_node > nodes[D].next_upper_node

\* a built tree whose generation 2 has two non-leaf nodes above the trunk and
\* two below it
C13_Witness ==
    /\ Built
    /\ tree.n_steps >= 3
    /\ Cardinality(AboveTrunk(2)) = 2
    /\ Cardinality(BelowTrunk(2)) = 2
    /\ \A U \in AboveTrunk(2) : nodes[U].next_upper_node # None

\* ------------------------------------------------- argument order
\* C14: with a valid step count, every node's down probability is the value
\* of calculate_down_probability at (forward_price, esperance, variance,
\* alpha), the order the function declares: the post-dividend forward price
\* first, the pre-dividend expectation second
C14_DownProbabilityArguments ==
    tree.n_steps >= 1 =>
        \A x \in Ids :
            nodes[x].p_down =
                calculate_down_probability(nodes[x].forward_price, nodes[x].esperance,
                                           nodes[x].variance, tree.alpha)

\* ------------------------------------------------- children's spot prices
\* C15: after the build, the children of every non-leaf node sit at the
\* prices the node derived at construction: the upper child at up_price, the
\* mid child at forward_price, the lower child at down_price
C15_ChildrenAtDerivedPrices ==
    (Built /\ tree.n_steps >= 1) =>
        \A x \in Ids :
            ~IsLeaf(x) =>
                /\ nodes[nodes[x].next_upper_node].spot_price = nodes[x].up_price
                /\ nodes[nodes[x].next_mid_node].spot_price = nodes[x].forward_price
                /\ nodes[nodes[x].next_lower_node].spot_price = nodes[x].down_price

\* ------------------------------------------------- a call on a fresh tree
\* TrinomialTree.price as a function of the market, the tree's parameters and
\* the contract: what a call returns on a tree object that has priced nothing
\* before.  The loops of __construct_next_generation:
RECURSIVE upward_loop(_, _, _)
upward_loop(ns, w, date_time) ==
    IF w = None
    THEN ns
    ELSE LET next == compute_next_nodes_upward(ns, w, date_time)
         IN  upward_loop(next, next[w].node_up, date_time)

RECURSIVE downward_loop(_, _, _)
downward_loop(ns, w, date_time) ==
    IF w = None
    THEN ns
    ELSE LET next == compute_next_nodes_downward(ns, w, date_time)
         IN  downward_loop(next, next[w].node_down, date_time)

\* __construct_next_generation on the trunk node mid
next_generation(ns, mid, date_time) ==
    LET trunk == compute_next_nodes(ns, mid, date_time)
        upper == upward_loop(trunk, trunk[mid].node_up, date_time)
    IN  downward_loop(upper, upper[mid].node_down, date_time)

\* the loop of __build_tree, done generations being complete
RECURSIVE build_from(_, _, _, _)
build_from(ns, mid, date, done) ==
    IF done >= tree.n_steps
    THEN ns
    ELSE LET date_time == RAdd(date, timedelta(tree))
             next == next_generation(ns, mid, date_time)
         IN  build_from(next, next[mid].next_mid_node, date_time, done + 1)

\* the lattice __build_tree makes of the market and the tree's parameters
FreshLattice ==
    build_from(<<Node(tree, market, market.spot_price, R(tree.pricing_date))>>, 1,
               R(tree.pricing_date), 0)

\* Node.price on a lattice none of whose nodes holds an option_price
RECURSIVE price_of(_, _, _)
price_of(ns, x, o) ==
    early_exercise(o, ns[x],
        IF ns[x].next_mid_node = None
        THEN payoff(o, ns[x].spot_price)
        ELSE continuation_value(tree, ns[x],
                 << price_of(ns, ns[x].next_upper_node, o),
                    price_of(ns, ns[x].next_mid_node, o),
                    price_of(ns, ns[x].next_lower_node, o) >>))

FreshPrice(o) == price_of(FreshLattice, 1, o)

\* the lattice under self.root, the option prices left aside
LatticeBuilt == [x \in Ids |-> [nodes[x] EXCEPT !.option_price = NoPrice]]

\* C16: every price call that returns, the first on the tree object or a later
\* one, with the same or another contract, builds the lattice and returns the
\* price that a call on a fresh tree with the same market, pricing date and
\* n_steps builds and returns; a later call with the contract of an earlier
\* one returns the same price
C16_SecondCallAsFresh ==
    /\ Returned =>
          /\ LatticeBuilt = FreshLattice
          /\ LastResult.price = FreshPrice(LastResult.opt)
    /\ \A j, k \in 1 .. Len(results) :
          results[j].opt = results[k].opt => results[j] = results[k]

\* a second call has returned, after a first call that returned another price
\* for another contract
C16_Witness ==
    /\ Returned
    /\ Len(results) = 2
    /\ tree.n_steps >= 2
    /\ results[1].status = "returned"
    /\ results[1].opt # results[2].opt
    /\ results[1].price # results[2].price

\* ------------------------------------------------- the dividend, once
\* Node.__init__ took the dividend off this node's forward price
DividendSubtracted(x) ==
    nodes[x].forward_price = RSub(nodes[x].esperance, market.dividend_price)

\* the non-leaf generations holding a node with the dividend subtracted
DividendGenerations ==
    {k \in 0 .. tree.n_steps - 1 : \E x \in Generation(k) : DividendSubtracted(x)}

\* C17: after the build, with a positive dividend whose ex-date lies in
\* [pricing_date, maturity_date], exactly one non-leaf generation has the
\* dividend subtracted from its forward prices, and all nodes of that
\* generation have
C17_DividendAppliedOnce ==
    ( /\ Built
      /\ tree.n_steps >= 1
      /\ market.dividend_price # Zero
      /\ RLe(R(tree.pricing_date), market.dividend_ex_date)
      /\ RLe(market.dividend_ex_date, R(opt.maturity_date)) )
    => /\ Cardinality(DividendGenerations) = 1
       /\ \A k \in DividendGenerations : \A x \in Generation(k) : DividendSubtracted(x)

\* ------------------------------------------------- links of the lattice
\* the three children of x are consecutive siblings: the mid child's
\* neighbours are the upper and the lower child, and these point back at it
ConsecutiveChildren(x) ==
    /\ nodes[nodes[x].next_mid_node].node_up = nodes[x].next_upper_node
    /\ nodes[nodes[x].next_mid_node].node_down = nodes[x].next_lower_node
    /\ nodes[nodes[x].next_upper_node].node_down = nodes[x].next_mid_node
    /\ nodes[nodes[x].next_lower_node].node_up = nodes[x].next_mid_node

\* C18: after a build with n_steps >= 1, every node of a generation k < n_steps
\* has its three child links set, to three consecutive siblings of generation
\* k+1; every node of generation n_steps has none; so next_mid_node is None
\* exactly on the nodes of generation n_steps
C18_ChildLinks ==
    (Built /\ tree.n_steps >= 1) =>
        /\ \A k \in 0 .. tree.n_steps - 1 : \A x \in Generation(k) :
              /\ nodes[x].next_upper_node # None
              /\ nodes[x].next_mid_node # None
              /\ nodes[x].next_lower_node # None
              /\ Children(x) \subseteq Generation(k + 1)
              /\ ConsecutiveChildren(x)
        /\ \A x \in Generation(tree.n_steps) : Children(x) = {}
        /\ \A x \in Ids : IsLeaf(x) <=> x \in Generation(tree.n_steps)

\* a built tree of three generations or more, whose generation 1 has its
\* three nodes linked to the five nodes of generation 2
C18_Witness ==
    /\ Built
    /\ tree.n_steps >= 2
    /\ Cardinality(UNION {Children(x) : x \in Generation(1)}) = 5
    /\ \E x \in Generation(tree.n_steps) : IsLeaf(x) /\ nodes[x].node_up = None

====
